---- MODULE Spec2Model ----
(***************************************************************************)
(* Model of the SkillTest component (src/components/Footer.tsx): the       *)
(* pronunciation scorer calculateSpeakingScore with its helpers, the word  *)
(* highlighter, the recording sessions and the microphone permission of    *)
(* the speaking test, the audio track of the listening test and the        *)
(* questions of the reading test; and of the Dictionary component          *)
(* (src/components/Dictionary.tsx).                                        *)
(*                                                                         *)
(* A text is a sequence of one-character strings.  Indices into word       *)
(* sequences are 0-based as in the source; the word at source index i is   *)
(* words[i + 1].                                                           *)
(***************************************************************************)
EXTENDS Integers, Sequences, FiniteSets, TLC

VARIABLES
    speakingData,        \* useState<SpeakingStory | null>
    spokenText,          \* useState('')
    pronunciationScore,  \* useState<number | null>
    score,               \* useState({correct, total})
    isRecording,         \* useState(false)
    testState,           \* useState<'idle' | 'loading' | 'in-progress' | 'completed'>
    error,               \* useState<string | null>, TRUE when a message is set
    recognitionRef,      \* useRef: 0 (null) or the number of a recognition session
    sessions,            \* the SpeechRecognition objects created so far
    pass,                \* record of the last run of calculateSpeakingScore
    lev,                 \* arguments and result of a call of getLevenshteinDistance
    listeningData,       \* useState<ListeningData | null>
    isPlayingAudio,      \* useState(false)
    isLoadingAudio,      \* useState(false)
    activeAudioId,       \* useState<string | null>
    audioSourceRef,      \* useRef: 0 (null) or the number of a buffer source
    sources,             \* the AudioBufferSourceNodes started so far
    audioCache,          \* useRef(new Map()): the texts with a decoded buffer
    audioLoadingPromises, \* useRef(new Map()): text -> request, 0 when absent
    requests,            \* the requests made to the speech generator so far
    skill,               \* props.skill.title
    permissionState,     \* useState<'prompt' | 'granted' | 'denied' | 'requesting'>
    micStatus,           \* the browser's permission status for the microphone
    micRequest,          \* TRUE while a getUserMedia call is awaited
    permissionWatch,     \* TRUE when permissionStatus.onchange is installed
    quizQuestions,       \* useState<QuizQuestion[] | null>
    currentQuestionIndex, \* useState(0)
    selectedOption,      \* useState<string | null>
    userAnswers,         \* useState<Record<number, string>>({})
    timers,              \* the pending setTimeout callbacks of handleOptionSelect
    dictionary           \* the state of the Dictionary component

vars == <<speakingData, spokenText, pronunciationScore, score, isRecording,
          testState, error, recognitionRef, sessions, pass, lev,
          listeningData, isPlayingAudio, isLoadingAudio, activeAudioId,
          audioSourceRef, sources, audioCache, audioLoadingPromises, requests,
          skill, permissionState, micStatus, micRequest, permissionWatch,
          quizQuestions, currentQuestionIndex, selectedOption, userAnswers,
          timers, dictionary>>

-----------------------------------------------------------------------------
(* Bounds of the model *)

MaxTarget == 2
MaxShort == 2
MaxSpoken == 7
MaxSessions == 2
MaxWordLen == 3
MaxRequests == 3
MaxSources == 2
MaxWaiting == 2

-----------------------------------------------------------------------------
(* Characters *)

LowerLetters == {"a","b","c","d","e","f","g","h","i","j","k","l","m",
                 "n","o","p","q","r","s","t","u","v","w","x","y","z"}
UpperLetters == {"A","B","C","D","E","F","G","H","I","J","K","L","M",
                 "N","O","P","Q","R","S","T","U","V","W","X","Y","Z"}
Digits == {"0","1","2","3","4","5","6","7","8","9"}

\* \s of the regular expressions
IsSpace(c) == c \in {" ", "\t", "\n"}

\* \w of the regular expressions
IsWordChar(c) == c \in LowerLetters \cup UpperLetters \cup Digits \cup {"_"}

toLowerCaseChar(c) ==
    CASE c = "A" -> "a" [] c = "B" -> "b" [] c = "C" -> "c" [] c = "D" -> "d"
      [] c = "E" -> "e" [] c = "F" -> "f" [] c = "G" -> "g" [] c = "H" -> "h"
      [] c = "I" -> "i" [] c = "J" -> "j" [] c = "K" -> "k" [] c = "L" -> "l"
      [] c = "M" -> "m" [] c = "N" -> "n" [] c = "O" -> "o" [] c = "P" -> "p"
      [] c = "Q" -> "q" [] c = "R" -> "r" [] c = "S" -> "s" [] c = "T" -> "t"
      [] c = "U" -> "u" [] c = "V" -> "v" [] c = "W" -> "w" [] c = "X" -> "x"
      [] c = "Y" -> "y" [] c = "Z" -> "z" [] OTHER -> c

-----------------------------------------------------------------------------
(* String helpers of calculateSpeakingScore *)

\* s.toLowerCase()
toLowerCase(s) == [k \in 1..Len(s) |-> toLowerCaseChar(s[k])]

\* .replace(/[^\w\s]|_/g, "")
StripPunctuation(s) ==
    SelectSeq(s, LAMBDA c : (IsWordChar(c) \/ IsSpace(c)) /\ c # "_")

\* .replace(/\s+/g, " "): every maximal run of whitespace becomes one space
RECURSIVE CollapseFrom(_, _, _)
CollapseFrom(s, k, out) ==
    IF k > Len(s) THEN out
    ELSE IF IsSpace(s[k])
         THEN IF k > 1 /\ IsSpace(s[k - 1])
              THEN CollapseFrom(s, k + 1, out)
              ELSE CollapseFrom(s, k + 1, Append(out, " "))
         ELSE CollapseFrom(s, k + 1, Append(out, s[k]))

\* a normalization that leaves runs of whitespace as they are
CollapseWhitespaceNone(s) == s

CollapseWhitespace(s) == CollapseFrom(s, 1, <<>>)

\* .trim()
RECURSIVE TrimStart(_)
TrimStart(s) ==
    IF s # <<>> /\ IsSpace(Head(s)) THEN TrimStart(Tail(s)) ELSE s

RECURSIVE TrimEnd(_)
TrimEnd(s) ==
    IF s # <<>> /\ IsSpace(s[Len(s)]) THEN TrimEnd(SubSeq(s, 1, Len(s) - 1)) ELSE s

\* a normalization that leaves the ends untrimmed
trimNothing(s) == s

trim(s) == TrimEnd(TrimStart(s))

\* const normalize = (s) => s.toLowerCase().replace(...).replace(...).trim()
normalize(s) == trim(CollapseWhitespace(StripPunctuation(toLowerCase(s))))

\* s.split(" "): the pieces between single spaces; "" gives one empty piece
RECURSIVE SplitFrom(_, _, _, _)
SplitFrom(s, k, cur, out) ==
    IF k > Len(s) THEN Append(out, cur)
    ELSE IF s[k] = " "
         THEN SplitFrom(s, k + 1, <<>>, Append(out, cur))
         ELSE SplitFrom(s, k + 1, Append(cur, s[k]), out)

split(s) == SplitFrom(s, 1, <<>>, <<>>)

-----------------------------------------------------------------------------
(* getLevenshteinDistance *)

Min2(x, y) == IF x <= y THEN x ELSE y

\* a row filled without the substitution term, and one without the
\* insertion term
RECURSIVE LevFillRowNoSubstitution(_, _, _, _, _, _)
LevFillRowNoSubstitution(a, b, i, prev, j, row) ==
    IF j > Len(a) THEN row
    ELSE LET cell == IF b[i] = a[j]
                     THEN prev[j]
                     ELSE Min2(row[j] + 1, prev[j + 1] + 1)
         IN  LevFillRowNoSubstitution(a, b, i, prev, j + 1, Append(row, cell))

RECURSIVE LevFillRowNoInsertion(_, _, _, _, _, _)
LevFillRowNoInsertion(a, b, i, prev, j, row) ==
    IF j > Len(a) THEN row
    ELSE LET cell == IF b[i] = a[j]
                     THEN prev[j]
                     ELSE Min2(prev[j] + 1, prev[j + 1] + 1)
         IN  LevFillRowNoInsertion(a, b, i, prev, j + 1, Append(row, cell))

\* Row i (1 <= i <= b.length) of the matrix from row i - 1.  A row lists
\* matrix[i][0..a.length]; column j is at position j + 1.
RECURSIVE LevFillRow(_, _, _, _, _, _)
LevFillRow(a, b, i, prev, j, row) ==
    IF j > Len(a) THEN row
    ELSE LET cell == IF b[i] = a[j]
                     THEN prev[j]
                     ELSE Min2(prev[j] + 1, Min2(row[j] + 1, prev[j + 1] + 1))
         IN  LevFillRow(a, b, i, prev, j + 1, Append(row, cell))

RECURSIVE LevRows(_, _, _, _)
LevRows(a, b, i, prev) ==
    IF i > Len(b) THEN prev
    ELSE LevRows(a, b, i + 1, LevFillRow(a, b, i, prev, 1, <<i>>))

getLevenshteinDistance(a, b) ==
    IF Len(a) = 0 THEN Len(b)
    ELSE IF Len(b) = 0 THEN Len(a)
    ELSE LevRows(a, b, 1, [j \in 1..(Len(a) + 1) |-> j - 1])[Len(a) + 1]

\* no call made
NoLev == [ran |-> FALSE, a |-> <<>>, b |-> <<>>, dist |-> 0]

-----------------------------------------------------------------------------
(* calculateSpeakingScore: the alignment loop *)

\* const SEARCH_WINDOW = 6
SEARCH_WINDOW == 6

\* a threshold that treats 5-letter words as long
allowedEditsFrom5(targetWord) == IF Len(targetWord) >= 5 THEN 2 ELSE 1

\* const allowedEdits = targetWord.length > 5 ? 2 : 1
allowedEdits(targetWord) == IF Len(targetWord) > 5 THEN 2 ELSE 1

\* Body of the inner loop for one candidate: the exact test, then the fuzzy
\* test; either one ends the search for this target word.
CandidateMatches(targetWord, spokenWord) ==
    \/ spokenWord = targetWord
    \/ getLevenshteinDistance(targetWord, spokenWord) <= allowedEdits(targetWord)

\* a scan with no window, and one with a window of 2
WindowEndWhole(spokenIdx, spokenWords) == Len(spokenWords)

WindowEndShort(spokenIdx, spokenWords) == Min2(spokenIdx + 2, Len(spokenWords))

\* Upper limit of the inner loop: Math.min(spokenIdx + SEARCH_WINDOW, spokenWords.length)
WindowEnd(spokenIdx, spokenWords) == Min2(spokenIdx + SEARCH_WINDOW, Len(spokenWords))

\* A scan that looks for an exact match in the whole window first and only
\* then for a fuzzy one
RECURSIVE ScanExact(_, _, _, _)
ScanExact(targetWord, spokenWords, i, limit) ==
    IF i >= limit THEN -1
    ELSE IF spokenWords[i + 1] = targetWord THEN i
    ELSE ScanExact(targetWord, spokenWords, i + 1, limit)

RECURSIVE ScanFuzzy(_, _, _, _)
ScanFuzzy(targetWord, spokenWords, i, limit) ==
    IF i >= limit THEN -1
    ELSE IF getLevenshteinDistance(targetWord, spokenWords[i + 1])
                <= allowedEdits(targetWord) THEN i
    ELSE ScanFuzzy(targetWord, spokenWords, i + 1, limit)

ScanWindowExactFirst(targetWord, spokenWords, i, limit) ==
    IF ScanExact(targetWord, spokenWords, i, limit) # -1
    THEN ScanExact(targetWord, spokenWords, i, limit)
    ELSE ScanFuzzy(targetWord, spokenWords, i, limit)

\* The inner loop from candidate index i: the index at which it breaks,
\* or -1 when it runs to the limit without a match.
RECURSIVE ScanWindow(_, _, _, _)
ScanWindow(targetWord, spokenWords, i, limit) ==
    IF i >= limit THEN -1
    ELSE IF CandidateMatches(targetWord, spokenWords[i + 1]) THEN i
    ELSE ScanWindow(targetWord, spokenWords, i + 1, limit)

\* cursors that skip a word after a match, that stay on the matched word,
\* and that also move on a miss
CursorAfterSkip(spokenIdx, i) == IF i # -1 THEN i + 2 ELSE spokenIdx

CursorAfterStay(spokenIdx, i) == IF i # -1 THEN i ELSE spokenIdx

CursorAfterAlways(spokenIdx, i) == IF i # -1 THEN i + 1 ELSE spokenIdx + 1

\* spokenIdx after one target word: i + 1 past a match at i, unchanged on a miss
CursorAfter(spokenIdx, i) == IF i # -1 THEN i + 1 ELSE spokenIdx

\* matches after one target word
MatchesAfter(matches, i) == IF i # -1 THEN matches + 1 ELSE matches

\* The outer loop over targetWords from the k-th word on.  steps lists, for
\* every target word handled, the cursor before it, the spoken index consumed
\* for it (-1: missed), and the cursor and match count after it.
RECURSIVE AlignLoop(_, _, _, _, _, _)
AlignLoop(targetWords, spokenWords, k, spokenIdx, matches, steps) ==
    IF k > Len(targetWords)
    THEN [matches |-> matches, spokenIdx |-> spokenIdx, steps |-> steps]
    ELSE CHOOSE result \in
             { AlignLoop(targetWords, spokenWords, k + 1,
                         CursorAfter(spokenIdx, i), MatchesAfter(matches, i),
                         Append(steps, [targetWord |-> targetWords[k],
                                        spokenIdx  |-> spokenIdx,
                                        consumed   |-> i,
                                        next       |-> CursorAfter(spokenIdx, i),
                                        matches    |-> MatchesAfter(matches, i)])) :
               i \in { ScanWindow(targetWords[k], spokenWords, spokenIdx,
                                  WindowEnd(spokenIdx, spokenWords)) } } : TRUE

\* Math.floor in place of Math.round
MathFloor(num, den) == num \div den

\* Math.round(x) for x = num / den >= 0: the nearest integer, halves upwards
MathRound(num, den) == (2 * num + den) \div (2 * den)

\* const calculatedScore = Math.round((matches / targetWords.length) * 100)
calculatedScore(matches, n) == MathRound(matches * 100, n)

\* an early return that only tests for an empty array
NoSpeechLengthOnly(spokenWords) == Len(spokenWords) = 0

\* the early return test of calculateSpeakingScore
NoSpeech(spokenWords) ==
    \/ Len(spokenWords) = 0
    \/ (Len(spokenWords) = 1 /\ spokenWords[1] = <<>>)

\* The body of calculateSpeakingScore after the two word lists are built,
\* as a value: the early return and the walk of the loop.
ScoreWords(targetWords, spokenWords) ==
    IF NoSpeech(spokenWords)
    THEN [early |-> TRUE, targetWords |-> targetWords,
          spokenWords |-> spokenWords, matches |-> 0, steps |-> <<>>,
          calculatedScore |-> 0]
    ELSE CHOOSE result \in
             { [early |-> FALSE, targetWords |-> targetWords,
                spokenWords |-> spokenWords, matches |-> r.matches,
                steps |-> r.steps,
                calculatedScore |-> calculatedScore(r.matches, Len(targetWords))] :
               r \in { AlignLoop(targetWords, spokenWords, 1, 0, 0, <<>>) } } : TRUE

\* One complete run of calculateSpeakingScore on a story and a transcript
ScoreRun(story, spoken) ==
    CHOOSE result \in
        { ScoreWords(targetWords, spokenWords) :
          targetWords \in { split(normalize(story)) },
          spokenWords \in { split(normalize(spoken)) } } : TRUE

\* null of useState<number | null>
NULL == -1

\* null of useState<SpeakingStory | null>
NoSpeakingData == [isNull |-> TRUE, story |-> <<>>]

SpeakingStory(story) == [isNull |-> FALSE, story |-> story]

NoPass ==
    [ran |-> FALSE, again |-> FALSE, session |-> 0, story |-> <<>>,
     spoken |-> <<>>,
     early |-> FALSE, targetWords |-> <<>>, spokenWords |-> <<>>,
     matches |-> 0, steps |-> <<>>, calculatedScore |-> 0]

\* a score record that adds the attempt to the previous record
speakingScoreRecordAdded(prev, calculated) ==
    [correct |-> prev.correct + (IF calculated >= 70 THEN 1 ELSE 0),
     total |-> prev.total + 1]

\* setScore({correct: calculatedScore >= 70 ? 1 : 0, total: 1})
speakingScoreRecord(prev, calculated) ==
    [correct |-> IF calculated >= 70 THEN 1 ELSE 0, total |-> 1]

\* calculateSpeakingScore as bound in one render: data and spoken are the
\* speakingData and spokenText of that render.  session is the recognition
\* session whose onend makes the call (0: none).
calculateSpeakingScore(data, spoken, session) ==
    IF data.isNull
    THEN UNCHANGED <<pronunciationScore, score, pass>>
    ELSE \E r \in { ScoreRun(data.story, spoken) } :
             /\ pronunciationScore' =
                    IF r.early THEN 0 ELSE Min2(100, r.calculatedScore)
             /\ score' =
                    IF r.early THEN score
                    ELSE speakingScoreRecord(score, r.calculatedScore)
             /\ pass' = [ran |-> TRUE, again |-> pass.ran, session |-> session,
                         story |-> data.story, spoken |-> spoken,
                         early |-> r.early, targetWords |-> r.targetWords,
                         spokenWords |-> r.spokenWords, matches |-> r.matches,
                         steps |-> r.steps,
                         calculatedScore |-> r.calculatedScore]

-----------------------------------------------------------------------------
(* getWordHighlightClass: the colour of one story word in the speaking view *)

\* const normalize = (s) => s.toLowerCase().replace(/[^\w\s]|_/g, "")
highlightNormalize(s) == StripPunctuation(toLowerCase(s))

\* .replace(/[^\w\s]|_/g, " ")
PunctuationToSpace(s) ==
    [k \in 1..Len(s) |->
        IF (IsWordChar(s[k]) \/ IsSpace(s[k])) /\ s[k] # "_" THEN s[k] ELSE " "]

\* s.split(/\s+/): the pieces between maximal runs of whitespace
RECURSIVE SplitWhitespaceFrom(_, _, _, _)
SplitWhitespaceFrom(s, k, cur, out) ==
    IF k > Len(s) THEN Append(out, cur)
    ELSE IF IsSpace(s[k])
         THEN IF k > 1 /\ IsSpace(s[k - 1])
              THEN SplitWhitespaceFrom(s, k + 1, cur, out)
              ELSE SplitWhitespaceFrom(s, k + 1, <<>>, Append(out, cur))
         ELSE SplitWhitespaceFrom(s, k + 1, Append(cur, s[k]), out)

splitWhitespace(s) == SplitWhitespaceFrom(s, 1, <<>>, <<>>)

\* spokenText.toLowerCase().replace(/[^\w\s]|_/g, " ").trim().split(/\s+/)
highlightSpokenWords(text) ==
    splitWhitespace(trim(PunctuationToSpace(toLowerCase(text))))

HL_NEUTRAL == "text-slate-300"
HL_MATCHED == "text-green-400 font-medium"
HL_MISSED  == "text-slate-500 transition-colors duration-500"

\* spokenWords.some(sw => sw === targetWord || distance <= allowedEdits)
highlightExists(targetWord, spokenWords) ==
    \E i \in 1..Len(spokenWords) :
        \/ spokenWords[i] = targetWord
        \/ getLevenshteinDistance(targetWord, spokenWords[i])
               <= (IF Len(targetWord) > 5 THEN 2 ELSE 1)

\* getWordHighlightClass(word, index, allTargetWords) in a render whose
\* spokenText is text
getWordHighlightClass(word, text) ==
    IF text = <<>> THEN HL_NEUTRAL
    ELSE IF highlightExists(highlightNormalize(word), highlightSpokenWords(text))
         THEN HL_MATCHED
         ELSE HL_MISSED

\* speakingData.story.split(" ") of the speaking view
StoryWords == IF speakingData.isNull THEN <<>> ELSE split(speakingData.story)

-----------------------------------------------------------------------------
(* Inputs *)

w_happy   == <<"h","a","p","p","y">>
w_hapy    == <<"h","a","p","y">>
w_hap     == <<"h","a","p">>
w_journey == <<"j","o","u","r","n","e","y">>
w_jorny   == <<"j","o","r","n","y">>
w_jrny    == <<"j","r","n","y">>
w_cat     == <<"c","a","t">>
w_bat     == <<"b","a","t">>
w_um      == <<"u","m">>
w_one     == <<"o","n","e">>
w_two     == <<"t","w","o">>
w_three   == <<"t","h","r","e","e">>
w_four    == <<"f","o","u","r">>
w_the     == <<"t","h","e">>
w_quick   == <<"q","u","i","c","k">>
w_quik    == <<"q","u","i","k">>
w_brown   == <<"b","r","o","w","n">>
w_fox     == <<"f","o","x">>

\* words.join(" ")
RECURSIVE Join(_)
Join(words) ==
    IF words = <<>> THEN <<>>
    ELSE IF Len(words) = 1 THEN words[1]
    ELSE words[1] \o <<" ">> \o Join(Tail(words))

SeqsUpTo(V, n) == UNION {[1..k -> V] : k \in 0..n}

TargetVocab == {w_happy, w_journey}
ShortVocab  == {w_happy, w_hapy, w_hap, w_journey, w_jorny, w_jrny}
WindowVocab == {w_um, w_happy}

OneTwoThreeFour == Join(<<w_one, w_two, w_three, w_four>>)
OneFour         == Join(<<w_one, w_four>>)
QuickBrownFox   == Join(<<w_the, w_quick, w_brown, w_fox>>)
QuikBrownFox    == Join(<<w_the, w_quik, w_brown, w_fox>>)
BatCat          == Join(<<w_bat, w_cat>>)
HappyJourneyCat == Join(<<w_happy, w_journey, w_cat>>)

\* raw texts with capitals, punctuation, underscores and irregular spacing
RawHappyCat   == <<"H","a","p","p","y",","," "," ","c","_","a","t","!">>
RawBlank      == <<" ","\t"," ">>
RawPunct      == <<" ",",","_","!"," ">>
RawUmHappy    == <<" ","U","m",".",".","\n","h","a","p","p","y"," ">>
RawCat2       == <<"_"," ","C","a","t","\t","-"," ","2","!">>
Weve          == <<"w","e","'","v","e">>

Stories ==
    {Join(ws) : ws \in SeqsUpTo(TargetVocab, MaxTarget) \ {<<>>}}
        \cup {w_cat, HappyJourneyCat, OneTwoThreeFour, QuickBrownFox,
              RawHappyCat, RawPunct, Weve, <<>>}

Transcripts ==
    {Join(ws) : ws \in SeqsUpTo(ShortVocab, MaxShort)}
        \cup {Join(ws) : ws \in SeqsUpTo(WindowVocab, MaxSpoken)}
        \cup Stories
        \cup {BatCat, OneFour, QuikBrownFox, RawBlank, RawPunct, RawUmHappy,
              RawCat2}

-----------------------------------------------------------------------------
(* Audio of the listening test: stopAudio, loadAudio, playGeminiTTS *)

\* the microphone permission of the component
permVars == <<skill, permissionState, micStatus, micRequest, permissionWatch>>

isReadingTest == skill = "Reading"
isListeningTest == skill = "Listening"
isSpeakingTest == skill = "Speaking"
needsMicrophone == isSpeakingTest

\* the component mounted for skill sk with the permission effect settled and
\* the microphone granted: a test without microphone sets 'granted' itself,
\* the speaking test reads it from the browser and listens for changes
PermissionGranted(sk) ==
    /\ skill = sk
    /\ permissionState = "granted"
    /\ micStatus = "granted"
    /\ micRequest = FALSE
    /\ permissionWatch = (sk = "Speaking")

\* the questions of a reading or listening test
quizVars == <<quizQuestions, currentQuestionIndex, selectedOption,
              userAnswers, timers>>

\* null of useState<QuizQuestion[] | null>
NoQuiz == [isNull |-> TRUE, questions |-> <<>>]

\* a list of questions, each given by its correctAnswer
Quiz(qs) == [isNull |-> FALSE, questions |-> qs]

\* null of useState<string | null>
NoOption == "null"

\* {} of useState<Record<number, string>>
NoAnswers == [i \in {} |-> NoOption]

QuizInit ==
    /\ quizQuestions = NoQuiz
    /\ currentQuestionIndex = 0
    /\ selectedOption = NoOption
    /\ userAnswers = NoAnswers
    /\ timers = <<>>

\* null of useState<DictionaryResult | null>
NoResult == [isNull |-> TRUE, word |-> <<>>]

\* the Dictionary component after construction; apiKey is
\* !!process.env.API_KEY, calls and sent count the calls of handleSearch
\* and the requests it has sent, asked is the word of the last request and
\* outcome tells how the last call of handleSearch has gone so far
DictionaryMounted(key) ==
    [word |-> <<>>, result |-> NoResult, loading |-> FALSE, error |-> "",
     apiKey |-> key, calls |-> 0, sent |-> 0, asked |-> <<>>,
     outcome |-> "none"]

DictionaryInit == dictionary = DictionaryMounted(TRUE)

\* null of useState<ListeningData | null>
NoListeningData == [isNull |-> TRUE, transcript |-> <<>>]

ListeningData(transcript) == [isNull |-> FALSE, transcript |-> transcript]

\* transcripts the content generator returns for a listening test
TranscriptPool == {Join(<<w_happy>>), Join(<<w_cat>>)}

\* null of useState<string | null>; 'main' is the only id the view passes
NoAudioId == "null"
MainAudioId == "main"

\* an empty Map<string, Promise<AudioBuffer>>: no request for any text
NoPromises == [t \in TranscriptPool |-> 0]

audioVars == <<listeningData, isPlayingAudio, isLoadingAudio, activeAudioId,
               audioSourceRef, sources, audioCache, audioLoadingPromises,
               requests>>

AudioInit ==
    /\ listeningData = NoListeningData
    /\ isPlayingAudio = FALSE
    /\ isLoadingAudio = FALSE
    /\ activeAudioId = NoAudioId
    /\ audioSourceRef = 0
    /\ sources = <<>>
    /\ audioCache = {}
    /\ audioLoadingPromises = NoPromises
    /\ requests = <<>>

\* audioSourceRef.current.stop() inside try/catch: a playing source stops
StopSource(ss, ref) ==
    IF ref # 0 /\ ss[ref] = "playing" THEN [ss EXCEPT ![ref] = "stopped"] ELSE ss

\* stopAudio()
stopAudio ==
    /\ sources' = StopSource(sources, audioSourceRef)
    /\ audioSourceRef' = 0
    /\ isPlayingAudio' = FALSE
    /\ activeAudioId' = NoAudioId

\* audioCache.current.clear(); audioLoadingPromises.current.clear().  The
\* requests made before the clear stay in flight; they are marked stale.
ClearAudioCaches ==
    /\ audioCache' = {}
    /\ audioLoadingPromises' = NoPromises
    /\ requests' = [r \in 1..Len(requests) |-> [requests[r] EXCEPT !.stale = TRUE]]

\* a request to the speech generator made now for text: repeated is TRUE when
\* a request for the same text made since the last clear has succeeded or is
\* still in flight
NewRequest(text, players) ==
    [text |-> text, state |-> "pending", players |-> players, stale |-> FALSE,
     repeated |-> \E q \in 1..Len(requests) :
                      /\ ~requests[q].stale
                      /\ requests[q].text = text
                      /\ requests[q].state \in {"pending", "resolved"}]

\* what a call of loadAudio(text) finds
LoadOutcome(text) ==
    IF text \in audioCache THEN "cached"
    ELSE IF audioLoadingPromises[text] # 0 THEN "joined"
    ELSE "requested"

\* loadAudio(text) up to its await, called by players calls of playGeminiTTS
\* (0 for the prefetch of startNewTest): the cached buffer, the promise in
\* audioLoadingPromises, or a new request to the speech generator
loadAudio(text, players) ==
    CASE LoadOutcome(text) = "cached" ->
             UNCHANGED <<requests, audioLoadingPromises>>
      [] LoadOutcome(text) = "joined" ->
             /\ requests[audioLoadingPromises[text]].players + players <= MaxWaiting
             /\ requests' = [requests EXCEPT
                                ![audioLoadingPromises[text]].players = @ + players]
             /\ UNCHANGED audioLoadingPromises
      [] LoadOutcome(text) = "requested" ->
             /\ Len(requests) < MaxRequests
             /\ requests' = Append(requests, NewRequest(text, players))
             /\ audioLoadingPromises' =
                    [audioLoadingPromises EXCEPT ![text] = Len(requests) + 1]

\* loadAudio(text) returns without waiting for the speech generator
LoadsAtOnce(text) ==
    \/ LoadOutcome(text) = "cached"
    \/ /\ LoadOutcome(text) = "joined"
       /\ requests[audioLoadingPromises[text]].state = "resolved"

-----------------------------------------------------------------------------
(* The scorer on its own: every story against every transcript *)

InitScorer ==
    /\ speakingData \in {SpeakingStory(s) : s \in Stories}
    /\ spokenText \in Transcripts
    /\ pronunciationScore = NULL
    /\ score = [correct |-> 0, total |-> 0]
    /\ isRecording = FALSE
    /\ testState = "in-progress"
    /\ error = FALSE
    /\ recognitionRef = 0
    /\ sessions = <<>>
    /\ pass = NoPass
    /\ lev = NoLev
    /\ AudioInit
    /\ PermissionGranted("Speaking")
    /\ QuizInit
    /\ DictionaryInit

\* calculateSpeakingScore() called in the current render
RunScorer ==
    /\ calculateSpeakingScore(speakingData, spokenText, 0)
    /\ UNCHANGED <<speakingData, spokenText, isRecording, testState, error,
                   recognitionRef, sessions>>
    /\ UNCHANGED lev
    /\ UNCHANGED audioVars
    /\ UNCHANGED <<permVars, quizVars, dictionary>>

NextScorer == RunScorer

SpecScorer == InitScorer /\ [][NextScorer]_vars

-----------------------------------------------------------------------------
(* The speaking test of the SkillTest component, microphone granted *)

\* stories the content generator returns, transcripts the recogniser delivers
StoryPool == {Join(<<w_happy>>), Join(<<w_happy, w_cat>>)}
HeardPool == {Join(<<w_happy>>), Join(<<w_cat>>), Join(<<w_happy, w_cat>>)}

Init ==
    /\ speakingData = NoSpeakingData
    /\ spokenText = <<>>
    /\ pronunciationScore = NULL
    /\ score = [correct |-> 0, total |-> 0]
    /\ isRecording = FALSE
    /\ testState = "idle"
    /\ error = FALSE
    /\ recognitionRef = 0
    /\ sessions = <<>>
    /\ pass = NoPass
    /\ lev = NoLev
    /\ AudioInit
    /\ PermissionGranted("Speaking")
    /\ QuizInit
    /\ DictionaryInit

\* recognition.stop() on the session recognitionRef.current, if any: a
\* session that is listening stops listening and its onend is delivered
\* later; on any other session the call has no effect.  recognitionRef is
\* never set back to null, so the call is made whatever the session's state.
StopCurrent(ss) ==
    IF recognitionRef # 0
    THEN [ss EXCEPT
             ![recognitionRef].state = IF @ = "active" THEN "stopping" ELSE @,
             ![recognitionRef].stoppedAgain =
                 @ \/ ss[recognitionRef].stopped
                   \/ ss[recognitionRef].state = "ended",
             ![recognitionRef].stopped = TRUE]
    ELSE ss

\* renderContent, the branch testState === 'idle' || error: the start view
\* with its Start Test button, unless the permission flow is rendered
StartButtonShown == ~(needsMicrophone /\ permissionState # "granted")

\* renderContent: the view returned, by the order of its branches
RenderedView ==
    IF testState = "loading" THEN "loading"
    ELSE IF testState = "idle" \/ error
         THEN IF StartButtonShown THEN "start" ELSE "permission"
    ELSE IF testState = "completed" THEN "completed"
    ELSE "in-progress"

\* startNewTest up to the request to the content generator
StartNewTest ==
    /\ testState # "loading"
    /\ \/ (testState = "idle" \/ error) /\ StartButtonShown
       \/ ~(testState = "idle" \/ error) /\ testState = "completed"
    /\ testState' = "loading"
    /\ error' = FALSE
    /\ speakingData' = NoSpeakingData
    /\ spokenText' = <<>>
    /\ pronunciationScore' = NULL
    /\ isRecording' = FALSE
    /\ sessions' = StopCurrent(sessions)
    /\ score' = [correct |-> 0, total |-> 0]
    /\ UNCHANGED <<recognitionRef, pass>>
    /\ UNCHANGED lev
    /\ stopAudio
    /\ ClearAudioCaches
    /\ listeningData' = NoListeningData
    /\ UNCHANGED isLoadingAudio
    /\ quizQuestions' = NoQuiz
    /\ currentQuestionIndex' = 0
    /\ userAnswers' = NoAnswers
    /\ UNCHANGED <<selectedOption, timers>>
    /\ UNCHANGED <<permVars, dictionary>>

\* startNewTest after the await: the response parsed into a story
GenerateSucceeded(story) ==
    /\ testState = "loading"
    /\ speakingData' = SpeakingStory(story)
    /\ testState' = "in-progress"
    /\ UNCHANGED <<spokenText, pronunciationScore, score, isRecording, error,
                   recognitionRef, sessions, pass>>
    /\ UNCHANGED lev
    /\ UNCHANGED audioVars
    /\ UNCHANGED <<permVars, quizVars, dictionary>>

\* a catch branch that returns to the start screen without a message
GenerateFailedSilent ==
    /\ testState = "loading"
    /\ testState' = "idle"
    /\ UNCHANGED <<speakingData, spokenText, pronunciationScore, score,
                   isRecording, error, recognitionRef, sessions, pass>>
    /\ UNCHANGED lev
    /\ UNCHANGED audioVars
    /\ UNCHANGED <<permVars, quizVars, dictionary>>

\* startNewTest, catch branch: no key, request failure or unparsable response
GenerateFailed ==
    /\ testState = "loading"
    /\ error' = TRUE
    /\ testState' = "idle"
    /\ UNCHANGED <<speakingData, spokenText, pronunciationScore, score,
                   isRecording, recognitionRef, sessions, pass>>
    /\ UNCHANGED lev
    /\ UNCHANGED audioVars
    /\ UNCHANGED <<permVars, quizVars, dictionary>>

\* the speaking view with its record button is rendered
SpeakingViewShown ==
    /\ testState = "in-progress"
    /\ ~error
    /\ ~speakingData.isNull

\* toggleRecording, isRecording branch
ToggleRecordingStop ==
    /\ SpeakingViewShown
    /\ isRecording
    /\ sessions' = StopCurrent(sessions)
    /\ isRecording' = FALSE
    /\ UNCHANGED <<speakingData, spokenText, pronunciationScore, score,
                   testState, error, recognitionRef, pass>>
    /\ UNCHANGED lev
    /\ UNCHANGED audioVars
    /\ UNCHANGED <<permVars, quizVars, dictionary>>

\* a start of a recording attempt that leaves the previous score in place
ToggleRecordingStartKeepsScore ==
    /\ SpeakingViewShown
    /\ ~isRecording
    /\ Len(sessions) < MaxSessions
    /\ spokenText' = <<>>
    /\ sessions' = Append(sessions,
                          [state |-> "active",
                           speakingData |-> speakingData,
                           spokenText |-> spokenText,
                           heard |-> <<>>,
                           stopped |-> FALSE,
                           stoppedAgain |-> FALSE])
    /\ recognitionRef' = Len(sessions) + 1
    /\ isRecording' = TRUE
    /\ UNCHANGED <<speakingData, pronunciationScore, score, testState, error,
                   pass>>
    /\ UNCHANGED lev
    /\ UNCHANGED audioVars
    /\ UNCHANGED <<permVars, quizVars, dictionary>>

\* toggleRecording, else branch, in a browser with speech recognition.  The
\* handlers of the new recognition object are closures of the render in which
\* the button was clicked: its onend calls the calculateSpeakingScore of that
\* render, which reads that render's speakingData and spokenText.
ToggleRecordingStart ==
    /\ SpeakingViewShown
    /\ ~isRecording
    /\ Len(sessions) < MaxSessions
    /\ spokenText' = <<>>
    /\ pronunciationScore' = NULL
    /\ sessions' = Append(sessions,
                          [state |-> "active",
                           speakingData |-> speakingData,
                           spokenText |-> spokenText,
                           heard |-> <<>>,
                           stopped |-> FALSE,
                           stoppedAgain |-> FALSE])
    /\ recognitionRef' = Len(sessions) + 1
    /\ isRecording' = TRUE
    /\ UNCHANGED <<speakingData, score, testState, error, pass>>
    /\ UNCHANGED lev
    /\ UNCHANGED audioVars
    /\ UNCHANGED <<permVars, quizVars, dictionary>>

\* a session that has started and whose onend has not been delivered:
\* listening ("active"), told to stop ("stopping") or failed ("errored")
Live(s) == sessions[s].state \in {"active", "stopping", "errored"}

\* recognition.onresult: allText is the transcript of all results so far
OnResult(s, allText) ==
    /\ sessions[s].state \in {"active", "stopping"}
    /\ spokenText' = allText
    /\ sessions' = [sessions EXCEPT ![s].heard = allText]
    /\ UNCHANGED <<speakingData, pronunciationScore, score, isRecording,
                   testState, error, recognitionRef, pass>>
    /\ UNCHANGED lev
    /\ UNCHANGED audioVars
    /\ UNCHANGED <<permVars, quizVars, dictionary>>

\* recognition.onerror
OnError(s) ==
    /\ sessions[s].state \in {"active", "stopping"}
    /\ sessions' = [sessions EXCEPT ![s].state = "errored"]
    /\ isRecording' = FALSE
    /\ UNCHANGED <<speakingData, spokenText, pronunciationScore, score,
                   testState, error, recognitionRef, pass>>
    /\ UNCHANGED lev
    /\ UNCHANGED audioVars
    /\ UNCHANGED <<permVars, quizVars, dictionary>>

\* recognition.onend
OnEnd(s) ==
    /\ Live(s)
    /\ sessions' = [sessions EXCEPT ![s].state = "ended"]
    /\ isRecording' = FALSE
    /\ calculateSpeakingScore(sessions[s].speakingData, sessions[s].spokenText, s)
    /\ UNCHANGED <<speakingData, spokenText, testState, error, recognitionRef>>
    /\ UNCHANGED lev
    /\ UNCHANGED audioVars
    /\ UNCHANGED <<permVars, quizVars, dictionary>>

\* handleNextQuestion in the speaking test, shown once a score is displayed
HandleNextQuestion ==
    /\ SpeakingViewShown
    /\ pronunciationScore # NULL
    /\ testState' = "completed"
    /\ UNCHANGED <<speakingData, spokenText, pronunciationScore, score,
                   isRecording, error, recognitionRef, sessions, pass>>
    /\ UNCHANGED lev
    /\ stopAudio
    /\ UNCHANGED <<listeningData, isLoadingAudio, audioCache,
                   audioLoadingPromises, requests>>
    /\ selectedOption' = NoOption
    /\ UNCHANGED <<quizQuestions, currentQuestionIndex, userAnswers, timers>>
    /\ UNCHANGED <<permVars, dictionary>>

\* resetTest
ResetTest ==
    /\ testState \in {"in-progress", "completed"}
    /\ sessions' = StopCurrent(sessions)
    /\ testState' = "idle"
    /\ speakingData' = NoSpeakingData
    /\ spokenText' = <<>>
    /\ pronunciationScore' = NULL
    /\ isRecording' = FALSE
    /\ score' = [correct |-> 0, total |-> 0]
    /\ UNCHANGED <<error, recognitionRef, pass>>
    /\ UNCHANGED lev
    /\ stopAudio
    /\ ClearAudioCaches
    /\ listeningData' = NoListeningData
    /\ UNCHANGED isLoadingAudio
    /\ quizQuestions' = NoQuiz
    /\ currentQuestionIndex' = 0
    /\ userAnswers' = NoAnswers
    /\ UNCHANGED <<selectedOption, timers>>
    /\ UNCHANGED <<permVars, dictionary>>

Next ==
    \/ StartNewTest
    \/ \E story \in StoryPool : GenerateSucceeded(story)
    \/ GenerateFailed
    \/ ToggleRecordingStop
    \/ ToggleRecordingStart
    \/ \E s \in 1..Len(sessions), allText \in HeardPool : OnResult(s, allText)
    \/ \E s \in 1..Len(sessions) : OnError(s)
    \/ \E s \in 1..Len(sessions) : OnEnd(s)
    \/ HandleNextQuestion
    \/ ResetTest

Spec == Init /\ [][Next]_vars

\* the speaking test taken by a user who reads one story, is heard saying
\* one sentence and records as many attempts as they like
NextAttempts ==
    \/ StartNewTest
    \/ GenerateSucceeded(Join(<<w_happy>>))
    \/ GenerateFailed
    \/ ToggleRecordingStop
    \/ ToggleRecordingStart
    \/ \E s \in 1..Len(sessions) : OnResult(s, Join(<<w_happy>>))
    \/ \E s \in 1..Len(sessions) : OnEnd(s)
    \/ HandleNextQuestion
    \/ ResetTest

SpecAttempts == Init /\ [][NextAttempts]_vars

-----------------------------------------------------------------------------
(* The listening test of the SkillTest component: its audio track *)

\* startNewTest after the await, listening branch: the transcript is stored
\* and its audio prefetched
GenerateListeningSucceeded(transcript) ==
    /\ testState = "loading"
    /\ listeningData' = ListeningData(transcript)
    /\ testState' = "in-progress"
    /\ loadAudio(transcript, 0)
    /\ UNCHANGED <<isPlayingAudio, isLoadingAudio, activeAudioId,
                   audioSourceRef, sources, audioCache>>
    /\ UNCHANGED <<speakingData, spokenText, pronunciationScore, score,
                   isRecording, error, recognitionRef, sessions, pass, lev>>
    /\ UNCHANGED <<permVars, quizVars, dictionary>>

\* the listening view with its play button is rendered and the button enabled
PlayButtonEnabled ==
    /\ testState = "in-progress"
    /\ ~error
    /\ ~listeningData.isNull
    /\ ~(isLoadingAudio /\ activeAudioId # MainAudioId)

\* ctx.createBufferSource(); source.start(0); audioSourceRef.current = source;
\* setIsPlayingAudio(true) by n calls of playGeminiTTS one after the other,
\* on the sources left by an earlier stopAudio: none of them stops a source
StartSources(ss, n) == ss \o [k \in 1..n |-> "playing"]

\* a click on the play button: playGeminiTTS(listeningData.transcript, 'main')
\* up to its await, and beyond it when loadAudio has the buffer at once
PlayGeminiTTS ==
    /\ PlayButtonEnabled
    /\ listeningData.transcript # <<>>
    /\ IF isPlayingAudio /\ activeAudioId = MainAudioId
       THEN /\ stopAudio
            /\ UNCHANGED <<isLoadingAudio, requests, audioLoadingPromises>>
       ELSE IF LoadsAtOnce(listeningData.transcript)
       THEN /\ Len(sources) < MaxSources
            /\ sources' = StartSources(StopSource(sources, audioSourceRef), 1)
            /\ audioSourceRef' = Len(sources) + 1
            /\ isPlayingAudio' = TRUE
            /\ activeAudioId' = MainAudioId
            /\ isLoadingAudio' = FALSE
            /\ UNCHANGED <<requests, audioLoadingPromises>>
       ELSE /\ sources' = StopSource(sources, audioSourceRef)
            /\ audioSourceRef' = 0
            /\ isPlayingAudio' = FALSE
            /\ isLoadingAudio' = TRUE
            /\ activeAudioId' = MainAudioId
            /\ loadAudio(listeningData.transcript, 1)
    /\ UNCHANGED <<listeningData, audioCache>>
    /\ UNCHANGED <<speakingData, spokenText, pronunciationScore, score,
                   isRecording, testState, error, recognitionRef, sessions,
                   pass, lev>>
    /\ UNCHANGED <<permVars, quizVars, dictionary>>

\* the speech generator answers request r: loadAudio stores the buffer, then
\* every call of playGeminiTTS that awaits it goes on and starts its source
RequestResolved(r) ==
    /\ requests[r].state = "pending"
    /\ Len(sources) + requests[r].players <= MaxSources
    /\ requests' = [requests EXCEPT ![r].state = "resolved", ![r].players = 0]
    /\ audioCache' = audioCache \cup {requests[r].text}
    /\ sources' = StartSources(sources, requests[r].players)
    /\ IF requests[r].players > 0
       THEN /\ audioSourceRef' = Len(sources) + requests[r].players
            /\ isPlayingAudio' = TRUE
            /\ isLoadingAudio' = FALSE
       ELSE UNCHANGED <<audioSourceRef, isPlayingAudio, isLoadingAudio>>
    /\ UNCHANGED <<listeningData, activeAudioId, audioLoadingPromises>>
    /\ UNCHANGED <<speakingData, spokenText, pronunciationScore, score,
                   isRecording, testState, error, recognitionRef, sessions,
                   pass, lev>>
    /\ UNCHANGED <<permVars, quizVars, dictionary>>

\* request r fails: loadAudio deletes the entry of its text from
\* audioLoadingPromises, and every call of playGeminiTTS that awaits it
\* reports the failure
RequestRejected(r) ==
    /\ requests[r].state = "pending"
    /\ requests' = [requests EXCEPT ![r].state = "rejected", ![r].players = 0]
    /\ audioLoadingPromises' =
           [audioLoadingPromises EXCEPT ![requests[r].text] = 0]
    /\ IF requests[r].players > 0
       THEN /\ error' = TRUE
            /\ isPlayingAudio' = FALSE
            /\ activeAudioId' = NoAudioId
            /\ isLoadingAudio' = FALSE
       ELSE UNCHANGED <<error, isPlayingAudio, activeAudioId, isLoadingAudio>>
    /\ UNCHANGED <<listeningData, audioSourceRef, sources, audioCache>>
    /\ UNCHANGED <<speakingData, spokenText, pronunciationScore, score,
                   isRecording, testState, recognitionRef, sessions, pass, lev>>
    /\ UNCHANGED <<permVars, quizVars, dictionary>>

\* source.onended of source s, after its buffer has played to the end or
\* after stop()
SourceEnded(s) ==
    /\ sources[s] \in {"playing", "stopped"}
    /\ sources' = [sources EXCEPT ![s] = "ended"]
    /\ isPlayingAudio' = FALSE
    /\ activeAudioId' = NoAudioId
    /\ audioSourceRef' = 0
    /\ UNCHANGED <<listeningData, isLoadingAudio, audioCache,
                   audioLoadingPromises, requests>>
    /\ UNCHANGED <<speakingData, spokenText, pronunciationScore, score,
                   isRecording, testState, error, recognitionRef, sessions,
                   pass, lev>>
    /\ UNCHANGED <<permVars, quizVars, dictionary>>

\* handleNextQuestion on the last question of the listening test (the
\* questions themselves are not part of this model)
HandleNextQuestionLast ==
    /\ testState = "in-progress"
    /\ ~error
    /\ ~listeningData.isNull
    /\ stopAudio
    /\ testState' = "completed"
    /\ UNCHANGED <<listeningData, isLoadingAudio, audioCache,
                   audioLoadingPromises, requests>>
    /\ UNCHANGED <<speakingData, spokenText, pronunciationScore, score,
                   isRecording, error, recognitionRef, sessions, pass, lev>>
    /\ selectedOption' = NoOption
    /\ UNCHANGED <<quizQuestions, currentQuestionIndex, userAnswers, timers>>
    /\ UNCHANGED <<permVars, dictionary>>

NextAudio ==
    \/ StartNewTest
    \/ \E transcript \in TranscriptPool : GenerateListeningSucceeded(transcript)
    \/ GenerateFailed
    \/ PlayGeminiTTS
    \/ \E r \in 1..Len(requests) : RequestResolved(r)
    \/ \E r \in 1..Len(requests) : RequestRejected(r)
    \/ \E s \in 1..Len(sources) : SourceEnded(s)
    \/ HandleNextQuestionLast
    \/ ResetTest

\* the component mounted for the listening test
InitListening ==
    /\ speakingData = NoSpeakingData
    /\ spokenText = <<>>
    /\ pronunciationScore = NULL
    /\ score = [correct |-> 0, total |-> 0]
    /\ isRecording = FALSE
    /\ testState = "idle"
    /\ error = FALSE
    /\ recognitionRef = 0
    /\ sessions = <<>>
    /\ pass = NoPass
    /\ lev = NoLev
    /\ AudioInit
    /\ PermissionGranted("Listening")
    /\ QuizInit
    /\ DictionaryInit

SpecAudio == InitListening /\ [][NextAudio]_vars

-----------------------------------------------------------------------------
(* The speaking test of the SkillTest component: its microphone permission *)

\* PermissionState of the Permissions API
MicStatuses == {"prompt", "granted", "denied"}

\* the component mounted for the speaking test, after the permission effect
\* has settled: navigator.permissions.query resolved, so that permissionState
\* is the browser's status and onchange is installed, or it failed, so that
\* permissionState is 'prompt'
InitPermission ==
    /\ speakingData = NoSpeakingData
    /\ spokenText = <<>>
    /\ pronunciationScore = NULL
    /\ score = [correct |-> 0, total |-> 0]
    /\ isRecording = FALSE
    /\ testState = "idle"
    /\ error = FALSE
    /\ recognitionRef = 0
    /\ sessions = <<>>
    /\ pass = NoPass
    /\ lev = NoLev
    /\ AudioInit
    /\ skill = "Speaking"
    /\ permissionWatch \in BOOLEAN
    /\ micStatus \in MicStatuses
    /\ permissionState = IF permissionWatch THEN micStatus ELSE "prompt"
    /\ micRequest = FALSE
    /\ QuizInit
    /\ DictionaryInit

\* the frame of the microphone permission actions
TestUnchanged ==
    /\ UNCHANGED <<speakingData, spokenText, pronunciationScore, score,
                   isRecording, testState, error, recognitionRef, sessions,
                   pass, lev>>
    /\ UNCHANGED <<audioVars, quizVars, dictionary>>

\* renderPermissionFlow is what renderContent returns, and its case is
\* 'prompt': the view with the Enable Microphone button
EnableButtonShown ==
    /\ testState # "loading"
    /\ testState = "idle" \/ error
    /\ needsMicrophone
    /\ permissionState \notin {"granted", "denied", "requesting"}

\* a permission flow whose 'denied' view had the Enable Microphone button too
RequestMicrophonePermissionAgain ==
    /\ EnableButtonShown \/ (testState = "idle" /\ permissionState = "denied")
    /\ permissionState' = "requesting"
    /\ micRequest' = TRUE
    /\ UNCHANGED <<skill, micStatus, permissionWatch>>
    /\ TestUnchanged

\* requestMicrophonePermission up to the await of getUserMedia
RequestMicrophonePermission ==
    /\ EnableButtonShown
    /\ permissionState' = "requesting"
    /\ micRequest' = TRUE
    /\ UNCHANGED <<skill, micStatus, permissionWatch>>
    /\ TestUnchanged

\* getUserMedia resolves: the user allowed the microphone, for this time
\* only or for good (the status becomes 'granted', and onchange, where it
\* is installed, sets 'granted' as well)
GetUserMediaResolved ==
    /\ micRequest
    /\ micStatus # "denied"
    /\ \E status \in {micStatus, "granted"} : micStatus' = status
    /\ permissionState' = "granted"
    /\ micRequest' = FALSE
    /\ UNCHANGED <<skill, permissionWatch>>
    /\ TestUnchanged

\* getUserMedia rejects: the microphone is blocked, the user dismissed or
\* blocked the prompt, or there is no device
GetUserMediaRejected ==
    /\ micRequest
    /\ \E status \in (IF micStatus = "prompt" THEN {"prompt", "denied"}
                                               ELSE {micStatus}) :
           micStatus' = status
    /\ permissionState' = "denied"
    /\ micRequest' = FALSE
    /\ UNCHANGED <<skill, permissionWatch>>
    /\ TestUnchanged

\* the user changes the microphone permission of the site in the browser;
\* permissionStatus.onchange, where installed, copies the new status.  While
\* a getUserMedia call is awaited the status changes only by the answer to
\* its prompt.
PermissionStatusChange(status) ==
    /\ ~micRequest
    /\ status # micStatus
    /\ micStatus' = status
    /\ permissionState' = IF permissionWatch THEN status ELSE permissionState
    /\ UNCHANGED <<skill, micRequest, permissionWatch>>
    /\ TestUnchanged

NextPermission ==
    \/ RequestMicrophonePermission
    \/ GetUserMediaResolved
    \/ GetUserMediaRejected
    \/ \E status \in MicStatuses : PermissionStatusChange(status)
    \/ StartNewTest
    \/ \E story \in StoryPool : GenerateSucceeded(story)
    \/ GenerateFailed
    \/ ToggleRecordingStop
    \/ ToggleRecordingStart
    \/ \E s \in 1..Len(sessions) : OnEnd(s)
    \/ HandleNextQuestion
    \/ ResetTest

SpecPermission == InitPermission /\ [][NextPermission]_vars

-----------------------------------------------------------------------------
(* The reading test of the SkillTest component: its questions *)

MaxQuestions == 3
MaxTimers == 2

\* the options of a question; the first one is its correctAnswer
Options == {"A", "B"}

\* the question lists the content generator returns
QuizPool == {[i \in 1..n |-> "A"] : n \in 1..MaxQuestions}

\* the component mounted for the reading test
InitReading ==
    /\ speakingData = NoSpeakingData
    /\ spokenText = <<>>
    /\ pronunciationScore = NULL
    /\ score = [correct |-> 0, total |-> 0]
    /\ isRecording = FALSE
    /\ testState = "idle"
    /\ error = FALSE
    /\ recognitionRef = 0
    /\ sessions = <<>>
    /\ pass = NoPass
    /\ lev = NoLev
    /\ AudioInit
    /\ PermissionGranted("Reading")
    /\ QuizInit
    /\ DictionaryInit

\* the frame of the actions of the quiz: the speaking and the audio state
\* other than what stopAudio writes
QuizFrame ==
    /\ UNCHANGED <<speakingData, spokenText, pronunciationScore, isRecording,
                   error, recognitionRef, sessions, pass, lev>>
    /\ UNCHANGED <<listeningData, isLoadingAudio, audioCache,
                   audioLoadingPromises, requests>>
    /\ UNCHANGED <<permVars, dictionary>>

\* startNewTest after the await in the reading test: setReadingPassage,
\* setQuizQuestions(parsedData.questions), setTestState('in-progress')
GenerateQuizSucceeded(questions) ==
    /\ testState = "loading"
    /\ isReadingTest
    /\ quizQuestions' = Quiz(questions)
    /\ testState' = "in-progress"
    /\ UNCHANGED <<score, currentQuestionIndex, selectedOption, userAnswers,
                   timers>>
    /\ UNCHANGED <<sources, audioSourceRef, isPlayingAudio, activeAudioId>>
    /\ QuizFrame

\* const currentQuestion = quizQuestions ? quizQuestions[currentQuestionIndex]
\* : null is a question
HasCurrentQuestion ==
    /\ ~quizQuestions.isNull
    /\ currentQuestionIndex < Len(quizQuestions.questions)

\* the in-progress view of a reading or listening test is rendered
QuizViewShown ==
    /\ RenderedView = "in-progress"
    /\ isReadingTest \/ isListeningTest

\* handleOptionSelect(option) by a click on an option button, which is
\* rendered for a current question and disabled once an option is selected
HandleOptionSelect(option) ==
    /\ QuizViewShown
    /\ HasCurrentQuestion
    /\ selectedOption = NoOption
    /\ Len(timers) < MaxTimers
    /\ selectedOption' = option
    /\ userAnswers' =
           [i \in DOMAIN userAnswers \cup {currentQuestionIndex} |->
               IF i = currentQuestionIndex THEN option ELSE userAnswers[i]]
    /\ score' =
           IF option = quizQuestions.questions[currentQuestionIndex + 1]
           THEN [correct |-> score.correct + 1, total |-> score.total + 1]
           ELSE [score EXCEPT !.total = @ + 1]
    /\ timers' = Append(timers, [quizQuestions |-> quizQuestions,
                                 currentQuestionIndex |-> currentQuestionIndex])
    /\ UNCHANGED <<testState, quizQuestions, currentQuestionIndex>>
    /\ UNCHANGED <<sources, audioSourceRef, isPlayingAudio, activeAudioId>>
    /\ QuizFrame

\* handleNextQuestion() of a render whose quizQuestions and
\* currentQuestionIndex are quiz and index, in a reading or listening test
handleNextQuestion(quiz, index) ==
    /\ selectedOption' = NoOption
    /\ IF ~quiz.isNull /\ index < Len(quiz.questions) - 1
       THEN /\ currentQuestionIndex' = currentQuestionIndex + 1
            /\ UNCHANGED testState
            /\ IF isListeningTest
               THEN UNCHANGED <<sources, audioSourceRef, isPlayingAudio,
                                activeAudioId>>
               ELSE stopAudio
       ELSE /\ testState' = "completed"
            /\ UNCHANGED currentQuestionIndex
            /\ stopAudio
    /\ UNCHANGED <<score, quizQuestions, userAnswers>>
    /\ QuizFrame

\* a click on the Next / Finish Test button, which is rendered once
\* isCurrentQuestionAnswered(), that is once an option is selected
HandleNextQuestionClick ==
    /\ QuizViewShown
    /\ selectedOption # NoOption
    /\ handleNextQuestion(quizQuestions, currentQuestionIndex)
    /\ UNCHANGED timers

\* the oldest timer of handleOptionSelect fires one second after the click:
\* it calls the handleNextQuestion of the render in which the option was
\* clicked.  No timer is ever cancelled.
TimerFired ==
    /\ timers # <<>>
    /\ handleNextQuestion(Head(timers).quizQuestions,
                          Head(timers).currentQuestionIndex)
    /\ timers' = Tail(timers)

NextQuiz ==
    \/ StartNewTest
    \/ \E questions \in QuizPool : GenerateQuizSucceeded(questions)
    \/ GenerateFailed
    \/ \E option \in Options : HandleOptionSelect(option)
    \/ HandleNextQuestionClick
    \/ TimerFired
    \/ ResetTest

SpecQuiz == InitReading /\ [][NextQuiz]_vars

-----------------------------------------------------------------------------
(* The Dictionary component (src/components/Dictionary.tsx) *)

MaxQueryLen == 2
MaxSearches == 3

\* what the user types into the search field
QueryPool == SeqsUpTo({"a", " "}, MaxQueryLen)

DICT_ERROR ==
    "We couldn't retrieve the definition at this time. Please try again."

\* what the request can come back with: a response whose text parses, a
\* response without text, a response whose text JSON.parse rejects
Responses == {"data", "empty", "unparsable"}

InitDictionary ==
    /\ speakingData = NoSpeakingData
    /\ spokenText = <<>>
    /\ pronunciationScore = NULL
    /\ score = [correct |-> 0, total |-> 0]
    /\ isRecording = FALSE
    /\ testState = "idle"
    /\ error = FALSE
    /\ recognitionRef = 0
    /\ sessions = <<>>
    /\ pass = NoPass
    /\ lev = NoLev
    /\ AudioInit
    /\ PermissionGranted("Speaking")
    /\ QuizInit
    /\ dictionary \in {DictionaryMounted(key) : key \in BOOLEAN}

\* the frame of the actions of the Dictionary component
SkillTestUnchanged ==
    /\ UNCHANGED <<speakingData, spokenText, pronunciationScore, score,
                   isRecording, testState, error, recognitionRef, sessions,
                   pass, lev>>
    /\ UNCHANGED <<audioVars, permVars, quizVars>>

\* onChange of the search field
SetWord(w) ==
    /\ w # dictionary.word
    /\ dictionary' = [dictionary EXCEPT !.word = w]
    /\ SkillTestUnchanged

\* a handleSearch that leaves the previous result on display
HandleSearchKeepsResult ==
    /\ ~dictionary.loading
    /\ dictionary.calls < MaxSearches
    /\ dictionary' =
           IF trim(dictionary.word) = <<>>
           THEN [dictionary EXCEPT !.calls = @ + 1, !.outcome = "blank"]
           ELSE IF ~dictionary.apiKey
           THEN [dictionary EXCEPT !.calls = @ + 1,
                                   !.loading = FALSE,
                                   !.error = DICT_ERROR,
                                   !.outcome = "failed"]
           ELSE [dictionary EXCEPT !.calls = @ + 1,
                                   !.loading = TRUE,
                                   !.error = "",
                                   !.sent = @ + 1,
                                   !.asked = dictionary.word,
                                   !.outcome = "sent"]
    /\ SkillTestUnchanged

\* handleSearch, submitted by the form, whose button is disabled while
\* loading: up to its return for a blank word, through its catch and finally
\* when the API key is missing, and up to the await of the request otherwise
HandleSearch ==
    /\ ~dictionary.loading
    /\ dictionary.calls < MaxSearches
    /\ dictionary' =
           IF trim(dictionary.word) = <<>>
           THEN [dictionary EXCEPT !.calls = @ + 1, !.outcome = "blank"]
           ELSE IF ~dictionary.apiKey
           THEN [dictionary EXCEPT !.calls = @ + 1,
                                   !.loading = FALSE,
                                   !.error = DICT_ERROR,
                                   !.result = NoResult,
                                   !.outcome = "failed"]
           ELSE [dictionary EXCEPT !.calls = @ + 1,
                                   !.loading = TRUE,
                                   !.error = "",
                                   !.result = NoResult,
                                   !.sent = @ + 1,
                                   !.asked = dictionary.word,
                                   !.outcome = "sent"]
    /\ SkillTestUnchanged

\* handleSearch after the await: the request has resolved
SearchResolved(response) ==
    /\ dictionary.outcome = "sent"
    /\ dictionary' =
           IF response = "data"
           THEN [dictionary EXCEPT
                    !.result = [isNull |-> FALSE, word |-> dictionary.asked],
                    !.loading = FALSE,
                    !.outcome = "succeeded"]
           ELSE [dictionary EXCEPT !.error = DICT_ERROR,
                                   !.loading = FALSE,
                                   !.outcome = "failed"]
    /\ SkillTestUnchanged

\* handleSearch after the await: the request has been rejected
SearchRejected ==
    /\ dictionary.outcome = "sent"
    /\ dictionary' = [dictionary EXCEPT !.error = DICT_ERROR,
                                        !.loading = FALSE,
                                        !.outcome = "failed"]
    /\ SkillTestUnchanged

NextDictionary ==
    \/ \E w \in QueryPool : SetWord(w)
    \/ HandleSearch
    \/ \E response \in Responses : SearchResolved(response)
    \/ SearchRejected

SpecDictionary == InitDictionary /\ [][NextDictionary]_vars

-----------------------------------------------------------------------------
(* getLevenshteinDistance on its own: every pair of short strings *)

LevAlphabet == {"a", "b"}

LevStrings == SeqsUpTo(LevAlphabet, MaxWordLen)

InitLev ==
    /\ speakingData = NoSpeakingData
    /\ spokenText = <<>>
    /\ pronunciationScore = NULL
    /\ score = [correct |-> 0, total |-> 0]
    /\ isRecording = FALSE
    /\ testState = "idle"
    /\ error = FALSE
    /\ recognitionRef = 0
    /\ sessions = <<>>
    /\ pass = NoPass
    /\ lev \in {[ran |-> FALSE, a |-> x, b |-> y, dist |-> 0] :
                   x \in LevStrings, y \in LevStrings}
    /\ AudioInit
    /\ PermissionGranted("Speaking")
    /\ QuizInit
    /\ DictionaryInit

\* getLevenshteinDistance(a, b)
RunLevenshtein ==
    /\ lev' = [lev EXCEPT !.ran = TRUE,
                          !.dist = getLevenshteinDistance(lev.a, lev.b)]
    /\ UNCHANGED <<speakingData, spokenText, pronunciationScore, score,
                   isRecording, testState, error, recognitionRef, sessions,
                   pass>>
    /\ UNCHANGED audioVars
    /\ UNCHANGED <<permVars, quizVars, dictionary>>

NextLev == RunLevenshtein

SpecLev == InitLev /\ [][NextLev]_vars

-----------------------------------------------------------------------------
(* Properties *)

\* the candidates the scorer may look at for a target word when the cursor
\* is at c in a spoken sequence of m words: indices c .. min(c + 6, m) - 1
LookaheadWindow(c, m) == {i \in 0..(m - 1) : c <= i /\ i < c + 6}

\* the allowed number of edits for target word t
Threshold(t) == IF Len(t) <= 5 THEN 1 ELSE 2

IsFuzzy(t, w) == w # t /\ getLevenshteinDistance(t, w) <= Threshold(t)

Least(S) == CHOOSE x \in S : \A y \in S : x <= y

StepIndices == 1..Len(pass.steps)

WordAt(i) == pass.spokenWords[i + 1]

ExactIn(st) ==
    {i \in LookaheadWindow(st.spokenIdx, Len(pass.spokenWords)) :
        WordAt(i) = st.targetWord}

FuzzyIn(st) ==
    {i \in LookaheadWindow(st.spokenIdx, Len(pass.spokenWords)) :
        IsFuzzy(st.targetWord, WordAt(i))}

\* C1 (as stated): whenever the window of a target word holds an exact match,
\* the word consumed is the leftmost exact match, even if an earlier word of
\* the window is a fuzzy match; a fuzzy match is consumed only when the window
\* holds no exact match.
C1_ExactMatchWins ==
    pass.ran =>
        \A k \in StepIndices :
            LET st == pass.steps[k]
            IN  IF ExactIn(st) # {}
                THEN st.consumed = Least(ExactIn(st))
                ELSE IF FuzzyIn(st) # {}
                     THEN st.consumed = Least(FuzzyIn(st))
                     ELSE st.consumed = -1

\* C1 (amended): the word consumed for a target word is the leftmost word of
\* its window that equals it or is a fuzzy match of it; the target word is
\* missed only when the window holds neither.
C1_LeftmostCandidateWins ==
    pass.ran =>
        \A k \in StepIndices :
            LET st == pass.steps[k]
                cands == ExactIn(st) \cup FuzzyIn(st)
            IN  IF cands # {}
                THEN st.consumed = Least(cands)
                ELSE st.consumed = -1

\* a fuzzy match was consumed although an exact match stood later in the window
C1_Witness ==
    /\ pass.ran
    /\ \E k \in StepIndices :
           /\ pass.steps[k].consumed # -1
           /\ IsFuzzy(pass.steps[k].targetWord, WordAt(pass.steps[k].consumed))
           /\ \E i \in ExactIn(pass.steps[k]) : i > pass.steps[k].consumed

\* the score the scorer gives a story and a transcript
ScoreOf(story, spoken) ==
    CHOOSE v \in { IF r.early THEN 0 ELSE Min2(100, r.calculatedScore) :
                   r \in { ScoreRun(story, spoken) } } : TRUE

\* C2: when the onend of a recording session has computed the score,
\* pronunciationScore is the scorer's result for the story and the transcript
\* that the onresult events of that same session delivered.
C2_ScoreFromSessionTranscript ==
    \A s \in 1..Len(sessions) :
        (/\ pass.ran
         /\ pass.session = s
         /\ sessions[s].state = "ended"
         /\ pronunciationScore # NULL)
            => pronunciationScore =
                   ScoreOf(sessions[s].speakingData.story, sessions[s].heard)

NonEmptyWords(ws) == \A k \in 1..Len(ws) : ws[k] # <<>>

\* C3: a spoken sequence identical to a target sequence of n > 0 non-empty
\* words scores 100.
C3_IdenticalScores100 ==
    (/\ pass.ran
     /\ Len(pass.targetWords) > 0
     /\ NonEmptyWords(pass.targetWords)
     /\ pass.spokenWords = pass.targetWords)
        => pronunciationScore = 100

C3_Witness ==
    /\ pass.ran
    /\ Len(pass.targetWords) >= 2
    /\ NonEmptyWords(pass.targetWords)
    /\ pass.spokenWords = pass.targetWords
    /\ pronunciationScore = 100

IsBlank(text) == \A k \in 1..Len(text) : IsSpace(text[k])

\* C4: for an empty or whitespace-only transcript the scorer sets
\* pronunciationScore to 0 whatever the story, and returns before the
\* alignment loop: no target word is handled and the score record is untouched.
C4_BlankTranscriptScoresZero ==
    (pass.ran /\ IsBlank(pass.spoken))
        => /\ pronunciationScore = 0
           /\ pass.early
           /\ pass.steps = <<>>
           /\ score = [correct |-> 0, total |-> 0]

C4_Witness ==
    /\ pass.ran
    /\ pass.spoken = RawBlank
    /\ NonEmptyWords(pass.targetWords)
    /\ pronunciationScore = 0
    /\ pass.steps = <<>>

MatchedSteps == {k \in StepIndices : pass.steps[k].consumed # -1}

\* C5: for a non-empty target sequence and any spoken sequence the score is
\* an integer in 0..100, the number of matches is at most the number of
\* target words n, and the score is matches / n * 100 rounded to the nearest
\* integer (no cap is needed as matches <= n keeps it at or below 100).
C5_ScoreIsRoundedPercentage ==
    (pass.ran /\ Len(pass.targetWords) > 0)
        => LET n == Len(pass.targetWords)
               m == Cardinality(MatchedSteps)
           IN  /\ pronunciationScore \in 0..100
               /\ pass.matches = m
               /\ m <= n
               /\ 2 * n * pronunciationScore <= 200 * m + n
               /\ 200 * m - n <= 2 * n * pronunciationScore

\* two of three target words matched: 66.67 rounds to 67
C5_Witness ==
    /\ pass.ran
    /\ ~pass.early
    /\ Len(pass.targetWords) = 3
    /\ pass.matches = 2
    /\ pronunciationScore = 67

\* C6: a spoken word different from the target word t counts as a match
\* exactly when its edit distance to t is at most 1 for t of 5 or fewer
\* characters and at most 2 for longer t: a consumed word that differs from t
\* is within that distance, and every word the scan passed over is different
\* from t and beyond that distance.
C6_FuzzyThreshold ==
    pass.ran =>
        \A k \in StepIndices :
            LET st == pass.steps[k]
                t  == st.targetWord
                limit == IF Len(t) <= 5 THEN 1 ELSE 2
                passed == {i \in LookaheadWindow(st.spokenIdx, Len(pass.spokenWords)) :
                              st.consumed = -1 \/ i < st.consumed}
            IN  /\ (st.consumed # -1 /\ WordAt(st.consumed) # t)
                       => getLevenshteinDistance(t, WordAt(st.consumed)) <= limit
                /\ \A i \in passed :
                       /\ WordAt(i) # t
                       /\ getLevenshteinDistance(t, WordAt(i)) > limit

\* a 7-letter target word passes over a word at distance 3 and consumes one
\* at distance 2; a 5-letter target word matches at distance 1, not at 2
C6_Witness ==
    /\ pass.ran
    /\ pass.targetWords = <<w_journey>>
    /\ pass.spokenWords = <<w_jrny, w_jorny>>
    /\ getLevenshteinDistance(w_journey, w_jrny) = 3
    /\ getLevenshteinDistance(w_journey, w_jorny) = 2
    /\ pass.steps[1].consumed = 1
    /\ getLevenshteinDistance(w_happy, w_hapy) = 1
    /\ getLevenshteinDistance(w_happy, w_hap) = 2
    /\ ScoreOf(w_happy, w_hapy) = 100
    /\ ScoreOf(w_happy, w_hap) = 0

\* C7: during one pass the cursor starts at 0, never decreases and never
\* exceeds the spoken length; it moves only on a match, to one past the
\* consumed index, and stays on a miss; every target word consumes at most
\* one spoken index and no index is consumed twice.
C7_CursorMonotone ==
    pass.ran =>
        /\ \A k \in StepIndices :
               LET st == pass.steps[k]
               IN  /\ st.spokenIdx = IF k = 1 THEN 0 ELSE pass.steps[k - 1].next
                   /\ st.spokenIdx <= st.next
                   /\ st.next <= Len(pass.spokenWords)
                   /\ st.consumed # -1 => st.next = st.consumed + 1
                   /\ st.consumed = -1 => st.next = st.spokenIdx
        /\ \A j, k \in MatchedSteps :
               j < k => pass.steps[j].consumed < pass.steps[k].consumed

\* a pass with two matches around a miss
C7_Witness ==
    /\ pass.ran
    /\ Len(pass.steps) = 3
    /\ pass.steps[1].consumed # -1
    /\ pass.steps[2].consumed = -1
    /\ pass.steps[3].consumed # -1
    /\ pass.steps[3].spokenIdx = pass.steps[1].next

\* C8: the spoken index i consumed for a target word satisfies
\* cursor <= i < min(cursor + 6, m); a word 6 or more positions past the
\* cursor is never consumed.
C8_ConsumedInsideWindow ==
    pass.ran =>
        \A k \in MatchedSteps :
            LET st == pass.steps[k]
            IN  /\ st.spokenIdx <= st.consumed
                /\ st.consumed < st.spokenIdx + 6
                /\ st.consumed < Len(pass.spokenWords)

\* a target word is missed although the spoken sequence holds it, 6 or more
\* positions past the cursor
C8_Witness ==
    /\ pass.ran
    /\ \E k \in StepIndices :
           /\ pass.steps[k].consumed = -1
           /\ \E i \in 0..(Len(pass.spokenWords) - 1) :
                  /\ i >= pass.steps[k].spokenIdx + 6
                  /\ WordAt(i) = pass.steps[k].targetWord

\* the spoken sequence with word f inserted before source index p
InsertAt(spokenWords, p, f) ==
    SubSeq(spokenWords, 1, p) \o <<f>> \o SubSeq(spokenWords, p + 1, Len(spokenWords))

FillerWords == {w_um}

\* f matches no target word of the pass, exactly or fuzzily
IsFiller(f) ==
    \A k \in 1..Len(pass.targetWords) :
        /\ f # pass.targetWords[k]
        /\ ~IsFuzzy(pass.targetWords[k], f)

\* the number of matches after f is inserted before the word consumed at step k
MatchesWithFiller(k, f) ==
    ScoreWords(pass.targetWords,
               InsertAt(pass.spokenWords, pass.steps[k].consumed, f)).matches

\* C9 (as stated): inserting one filler word immediately before a spoken word
\* that the scorer matched, at a position inside the lookahead window of its
\* target word, lowers the number of matches by at most one.
C9_FillerCostsAtMostOne ==
    (pass.ran /\ ~pass.early) =>
        \A k \in MatchedSteps, f \in FillerWords :
            IsFiller(f) => MatchesWithFiller(k, f) >= pass.matches - 1

\* C9 (amended): the same, provided the matched word is still inside the
\* window after the insertion, that is, it stood before the last position of
\* the window.
C9_FillerInsideWindowCostsAtMostOne ==
    (pass.ran /\ ~pass.early) =>
        \A k \in MatchedSteps, f \in FillerWords :
            (/\ IsFiller(f)
             /\ pass.steps[k].consumed + 1 < pass.steps[k].spokenIdx + 6)
                => MatchesWithFiller(k, f) >= pass.matches - 1

\* a filler pushes a matched word further into its window; two matches remain
C9_Witness ==
    /\ pass.ran
    /\ ~pass.early
    /\ pass.matches = 2
    /\ \E k \in MatchedSteps, f \in FillerWords :
           /\ IsFiller(f)
           /\ pass.steps[k].consumed > pass.steps[k].spokenIdx
           /\ pass.steps[k].consumed + 1 < pass.steps[k].spokenIdx + 6
           /\ MatchesWithFiller(k, f) = 2

\* C10: for T = [one, two, three, four] and S = [one, four] the score is 50:
\* 'one' and 'four' are matched, 'two' and 'three' are missed with the cursor
\* left at 1, so 'four' is inside the window at its own turn.
C10_OneFourScores50 ==
    (/\ pass.ran
     /\ pass.targetWords = <<w_one, w_two, w_three, w_four>>
     /\ pass.spokenWords = <<w_one, w_four>>)
        => /\ pronunciationScore = 50
           /\ [k \in 1..4 |-> pass.steps[k].consumed] = <<0, -1, -1, 1>>
           /\ [k \in 1..4 |-> pass.steps[k].next] = <<1, 1, 1, 2>>
           /\ 1 \in LookaheadWindow(pass.steps[4].spokenIdx, 2)

C10_Witness ==
    /\ pass.ran
    /\ pass.story = OneTwoThreeFour
    /\ pass.spoken = OneFour
    /\ pass.matches = 2
    /\ pronunciationScore = 50

Chars(s) == {s[k] : k \in 1..Len(s)}

\* the strings one single-character deletion, substitution or insertion away
\* from s, over the given characters, of at most cap characters
OneEdit(s, chars, cap) ==
    {SubSeq(s, 1, k - 1) \o SubSeq(s, k + 1, Len(s)) : k \in 1..Len(s)}
        \cup {[s EXCEPT ![k] = c] : k \in 1..Len(s), c \in chars}
        \cup (IF Len(s) < cap
              THEN {SubSeq(s, 1, k) \o <<c>> \o SubSeq(s, k + 1, Len(s)) :
                        k \in 0..Len(s), c \in chars}
              ELSE {})

\* the least number of edits after which b is among the strings reached
RECURSIVE EditsUntil(_, _, _, _, _)
EditsUntil(reached, b, n, chars, cap) ==
    IF b \in reached THEN n
    ELSE EditsUntil(reached \cup UNION {OneEdit(s, chars, cap) : s \in reached},
                    b, n + 1, chars, cap)

\* edit distance by its definition: the length of a shortest chain of single
\* edits from a to b
EditDistance(a, b) ==
    EditsUntil({a}, b, 0, Chars(a) \cup Chars(b),
               (IF Len(a) >= Len(b) THEN Len(a) ELSE Len(b)) + 1)

\* C11: getLevenshteinDistance(a, b) is the minimum number of single-character
\* insertions, deletions and substitutions that turn a into b, for all
\* strings including the empty one.
C11_LevenshteinIsEditDistance ==
    lev.ran => lev.dist = EditDistance(lev.a, lev.b)

\* a pair that needs a substitution and a deletion
C11_Witness ==
    /\ lev.ran
    /\ lev.a = <<"a", "a", "b">>
    /\ lev.b = <<"b", "b">>
    /\ lev.dist = 2

\* C12: getLevenshteinDistance(a, b) = getLevenshteinDistance(b, a).
C12_LevenshteinSymmetric ==
    lev.ran => lev.dist = getLevenshteinDistance(lev.b, lev.a)

\* a pair of different lengths, one of them empty or not
C12_Witness ==
    /\ lev.ran
    /\ Len(lev.a) = 1
    /\ Len(lev.b) = 3
    /\ lev.dist = 3

\* text holds a letter or a digit
HasLetterOrDigit(text) ==
    \E k \in 1..Len(text) : text[k] \in LowerLetters \cup UpperLetters \cup Digits

\* C13 (as stated): normalizing empty, whitespace-only or punctuation-only
\* text in the scorer yields a word sequence of length 0, for the story as
\* well as for the transcript.
C13_EmptyTextYieldsEmptySequence ==
    pass.ran =>
        /\ ~HasLetterOrDigit(pass.story) => Len(pass.targetWords) = 0
        /\ ~HasLetterOrDigit(pass.spoken) => Len(pass.spokenWords) = 0

\* C13 (amended): such text yields a sequence of length 1 whose only token is
\* the empty token, for the story as well as for the transcript; for the
\* transcript the scorer takes this sequence as no speech.
C13_EmptyTextYieldsOneEmptyToken ==
    pass.ran =>
        /\ ~HasLetterOrDigit(pass.story) => pass.targetWords = << <<>> >>
        /\ ~HasLetterOrDigit(pass.spoken) =>
               (pass.spokenWords = << <<>> >> /\ pass.early)

\* a punctuation-only story scored against a whitespace-only transcript
C13_Witness ==
    /\ pass.ran
    /\ pass.story = RawPunct
    /\ pass.spoken = RawBlank
    /\ pass.targetWords = << <<>> >>
    /\ pass.spokenWords = << <<>> >>

IsLetterOrDigit(c) == c \in LowerLetters \cup UpperLetters \cup Digits

\* the words of a raw text read off directly: every maximal run of
\* non-whitespace characters, reduced to its letters and digits in lower
\* case, runs without letters and digits left out
RECURSIVE WordsFrom(_, _, _, _)
WordsFrom(text, k, cur, out) ==
    IF k > Len(text)
    THEN IF cur = <<>> THEN out ELSE Append(out, cur)
    ELSE IF IsSpace(text[k])
         THEN WordsFrom(text, k + 1, <<>>,
                        IF cur = <<>> THEN out ELSE Append(out, cur))
         ELSE WordsFrom(text, k + 1,
                        IF IsLetterOrDigit(text[k])
                        THEN Append(cur, toLowerCaseChar(text[k]))
                        ELSE cur,
                        out)

WordsOf(text) == WordsFrom(text, 1, <<>>, <<>>)

\* tokens is what the scorer's normalization makes of text
WellNormalized(text, tokens) ==
    /\ \A k \in 1..Len(tokens) :
           /\ tokens[k] # <<>>
           /\ \A i \in 1..Len(tokens[k]) : tokens[k][i] \in LowerLetters \cup Digits
    /\ tokens = WordsOf(text)
    /\ split(normalize(normalize(text))) = tokens
    /\ split(normalize(Join(tokens))) = tokens

InScorerSequence(t, text) ==
    \E sw \in {split(normalize(text))[i] : i \in 1..Len(split(normalize(text)))} :
        sw = t \/ IsFuzzy(t, sw)

\* C15: with a non-empty transcript, getWordHighlightClass reports a story
\* word as matched exactly when some word of the scorer's normalized spoken
\* sequence equals the normalized story word or is within the scorer's
\* edit-distance threshold of it, wherever it stands.
C15_HighlightFollowsScorerSequence ==
    spokenText # <<>> =>
        \A k \in 1..Len(StoryWords) :
            (getWordHighlightClass(StoryWords[k], spokenText) = HL_MATCHED)
                <=> InScorerSequence(highlightNormalize(StoryWords[k]), spokenText)

\* C16: a run of the scorer on the story and transcript of an earlier run
\* leaves pronunciationScore and the score record as the earlier run set
\* them; nothing of the first run changes the result of the second.
C16_ScorerIdempotent ==
    [][(/\ pass.ran
        /\ pass'.story = pass.story
        /\ pass'.spoken = pass.spoken)
           => (/\ pronunciationScore' = pronunciationScore
               /\ score' = score
               /\ pass'.steps = pass.steps)]_vars

\* the scorer has run a second time on a story read with one word missed
C16_Witness ==
    /\ pass.ran
    /\ pass.again
    /\ ~pass.early
    /\ pass.story = HappyJourneyCat
    /\ pass.matches = 2
    /\ pronunciationScore = 67
    /\ score = [correct |-> 0, total |-> 1]

LiveSessions == {s \in 1..Len(sessions) : Live(s)}

\* C19: at any time at most one speech-recognition session has started and
\* not yet ended; a start through toggleRecording while an earlier session
\* has not ended creates no second session.
C19_AtMostOneLiveSession == Cardinality(LiveSessions) <= 1

\* C20: across toggleRecording, startNewTest and resetTest every listening
\* session is stopped, and stop() is never invoked on a session that was
\* already stopped or has ended.
C20_StopAtMostOnce ==
    /\ \A s \in 1..Len(sessions) : ~sessions[s].stoppedAgain
    /\ testState \in {"idle", "loading"} =>
           \A s \in 1..Len(sessions) : sessions[s].state # "active"

PlayingSources == {s \in 1..Len(sources) : sources[s] = "playing"}

\* C17: audio playback is single-voice: after any sequence of playGeminiTTS
\* calls, calls issued while an earlier call still awaits loadAudio included,
\* at most one buffer source is started and not yet stopped or ended.
C17_SingleVoice == Cardinality(PlayingSources) <= 1

\* C18: between two cache clears, calls of loadAudio for the same text invoke
\* the speech generator at most once as long as the first request has
\* succeeded or is still in flight.
C18_GeneratorAtMostOnce ==
    \A r \in 1..Len(requests) : ~requests[r].repeated

\* C21: the start of a recording attempt (a new recognition session),
\* startNewTest (testState becomes 'loading') and resetTest (a test in
\* progress or completed becomes 'idle') each leave spokenText empty and
\* pronunciationScore null.
C21_AttemptResetsTranscript ==
    [][(\/ Len(sessions') > Len(sessions)
        \/ (testState' = "loading" /\ testState # "loading")
        \/ (testState' = "idle" /\ testState \in {"in-progress", "completed"}))
           => (spokenText' = <<>> /\ pronunciationScore' = NULL)]_vars

\* a second attempt has just started: the transcript and the score of the
\* first attempt were on display when the button was clicked
C21_Witness ==
    /\ Len(sessions) = 2
    /\ sessions[2].state = "active"
    /\ sessions[2].heard = <<>>
    /\ sessions[2].spokenText # <<>>
    /\ pass.ran
    /\ pass.session = 1
    /\ isRecording
    /\ spokenText = <<>>
    /\ pronunciationScore = NULL

C25_NoStaleCallbackEffect ==
    testState \in {"idle", "loading"}
        => /\ pronunciationScore = NULL
           /\ score = [correct |-> 0, total |-> 0]

\* C28: with a non-empty transcript, every story word whose normalized form
\* is a target word the scorer counted as matched is green in the view:
\* getWordHighlightClass reports it as matched.
C28_HighlighterAtLeastAsLenient ==
    (pass.ran /\ ~pass.early /\ pass.spoken # <<>> /\ spokenText = pass.spoken)
        => \A k \in MatchedSteps :
              \A j \in 1..Len(StoryWords) :
                  highlightNormalize(StoryWords[j]) = pass.steps[k].targetWord
                      => getWordHighlightClass(StoryWords[j], spokenText)
                             = HL_MATCHED

\* C29: between event handlers isPlayingAudio is true exactly when
\* audioSourceRef holds a source that is playing (started, not ended, not
\* stopped); and the onended of a source that was stopped leaves
\* audioSourceRef and isPlayingAudio alone while a newer source is playing.
C29_PlayingFlagFollowsSource ==
    /\ [](isPlayingAudio
             <=> (audioSourceRef # 0 /\ sources[audioSourceRef] = "playing"))
    /\ [][(\E s \in 1..Len(sources) :
              /\ sources[s] = "stopped"
              /\ sources'[s] = "ended"
              /\ \E t \in PlayingSources : t > s)
             => UNCHANGED <<audioSourceRef, isPlayingAudio>>]_vars

\* C30: whenever testState is 'in-progress' the view rendered is the
\* in-progress test view, and the start screen is rendered only when
\* testState is 'idle'.
C30_InProgressViewRendered ==
    /\ testState = "in-progress" => RenderedView = "in-progress"
    /\ RenderedView = "start" => testState = "idle"

\* C24: a call of handleSearch with a blank or whitespace-only word changes
\* no state of the component and sends no request; a call with any other
\* word sends a request unless the API key is missing; when the handler has
\* finished loading is false, after a failure result is null and error is
\* the static message, after a success error is empty and result is the
\* parsed data; result and error are never both set.
C24_SearchOutcomes ==
    /\ [][(dictionary'.calls > dictionary.calls)
             => IF trim(dictionary.word) = <<>>
                THEN /\ dictionary'.word = dictionary.word
                     /\ dictionary'.result = dictionary.result
                     /\ dictionary'.loading = dictionary.loading
                     /\ dictionary'.error = dictionary.error
                     /\ dictionary'.sent = dictionary.sent
                ELSE \/ dictionary'.sent = dictionary.sent + 1
                     \/ ~dictionary.apiKey /\ dictionary'.outcome = "failed"]_vars
    /\ [](dictionary.loading <=> dictionary.outcome = "sent")
    /\ [](dictionary.outcome = "failed"
             => /\ dictionary.result = NoResult
                /\ dictionary.error = DICT_ERROR)
    /\ [](dictionary.outcome = "succeeded"
             => /\ dictionary.error = ""
                /\ ~dictionary.result.isNull
                /\ dictionary.result.word = dictionary.asked)
    /\ [](~(~dictionary.result.isNull /\ dictionary.error # ""))

\* three searches, one of them with a blank word and two that sent a
\* request; the last one has failed and the message is shown
C24_Witness ==
    /\ dictionary.apiKey
    /\ dictionary.calls = 3
    /\ dictionary.sent = 2
    /\ dictionary.outcome = "failed"
    /\ dictionary.error = DICT_ERROR
    /\ dictionary.result = NoResult
    /\ ~dictionary.loading

\* C26: while testState is 'in-progress' in a quiz with questions,
\* 0 <= currentQuestionIndex < quizQuestions.length: there is a current
\* question.
C26_CurrentQuestionExists ==
    (/\ testState = "in-progress"
     /\ ~quizQuestions.isNull
     /\ Len(quizQuestions.questions) > 0)
        => (0 <= currentQuestionIndex
            /\ currentQuestionIndex < Len(quizQuestions.questions))

\* C27: in a reading test score.correct <= score.total <= number of
\* questions in every state, and a step that completes the test from an
\* answered question leaves score.total equal to the number of questions
\* and userAnswers with an entry for every question index.
C27_EveryQuestionGradedOnce ==
    /\ [](score.correct <= score.total)
    /\ [](~quizQuestions.isNull => score.total <= Len(quizQuestions.questions))
    /\ [][(/\ testState = "in-progress"
           /\ testState' = "completed"
           /\ ~quizQuestions.isNull
           /\ selectedOption # NoOption)
              => /\ score'.total = Len(quizQuestions.questions)
                 /\ DOMAIN userAnswers' = 0..(Len(quizQuestions.questions) - 1)]_vars

====
